---- MODULE Spec2Model ----
(***************************************************************************)
(* A model of the virt-arena crate: a bump-pointer arena over one large    *)
(* virtual-memory reservation (src/src/lib.rs, unix.rs, windows.rs).       *)
(*                                                                         *)
(* Scale.  TLC's integers are 32 bit, the program's are 64 bit, so every   *)
(* quantity of the address space is scaled down by the same idea: the      *)
(* machine word is USIZE_BITS = 8 bits wide (usize::MAX = 255,             *)
(* isize::MAX = 127), the reservation VIRT_ALLOC_SIZE is 16 bytes instead  *)
(* of 128 GiB, pages are 4 bytes instead of 4 KiB.  Pointer arithmetic is  *)
(* done modulo the word, as the hardware does it.                          *)
(*                                                                         *)
(* The backend's allocation routine is generic over the allocated type T   *)
(* (unix.rs:62, windows.rs:58); the facade of lib.rs hands it a Layout.    *)
(* A request is therefore a layout [size, align] of a Rust type: align a   *)
(* power of two and size a multiple of align.                              *)
(***************************************************************************)
EXTENDS Integers, Sequences, FiniteSets, TLC

VARIABLES
    state,          \* lifecycle of the arena value
    platform,       \* cfg(unix) or cfg(windows): which backend is compiled in
    ub_checks,      \* whether the build checks the preconditions of ptr::add
    start,          \* VirtArena.start: base address of the reservation
    cursor,         \* VirtArena.cursor / alloc_cursor
    commit_cursor,  \* VirtArena.commit_cursor (windows only, 0 on unix)
    mem,            \* contents of the reservation, by offset from start
    written,        \* ghost: the value the program last stored at each offset
    hist,           \* ghost: the allocations returned since the last reset
    fresh,          \* ghost: no reset since construction
    dirty,          \* ghost: the caller stored through a handle since the last reset
    last,           \* ghost: the last facade call and what it returned
    phys,           \* environment: blocks the system can still commit
    calls,          \* ghost: the system calls the last operation issued
    commit_log,     \* ghost: the address of every block committed so far
    life,           \* ghost: lifecycle states passed, reservations, releases
    frames,         \* alloc_with calls whose producer is running (a stack)
    threads         \* allocations in flight on unsynchronized threads

vars == <<state, platform, ub_checks, start, cursor, commit_cursor, mem,
          written, hist, fresh, dirty, last, phys, calls, commit_log, life,
          frames, threads>>

----------------------------------------------------------------------------
(* Bounds of the model *)

MaxAllocs == 3      \* allocations recorded per epoch (between two resets)
MaxCount  == 2      \* largest element count of an array allocation

(* Program constants, scaled *)

USIZE_BITS == 8
USIZE == 2 ^ USIZE_BITS         \* number of values of a usize
USIZE_MAX == USIZE - 1
ISIZE_MAX == (USIZE \div 2) - 1

VIRT_ALLOC_SIZE == 16           \* lib.rs:90, 128 GiB in the program
COMMIT_BLOCK_SIZE == 4          \* windows.rs:13, 1 << 10 in the program

(* Addresses mmap / VirtualAlloc may return: page aligned (pages of 4). *)
BaseAddrs == {4, 8}

(* Layouts of the element types the caller allocates: u8, u32 and a type   *)
(* aligned more strictly than a page (#[repr(align(..))]).                 *)
U8  == [size |-> 1, align |-> 1]
U32 == [size |-> 4, align |-> 4]
Big == [size |-> 8, align |-> 8]
Types == {U8, U32, Big}

(* The element type of the calls whose memory contents are followed (the   *)
(* 4-byte record of the crate's test) and the non-zero byte values the     *)
(* caller stores.                                                          *)
MemTypes == {U32}
Values == {1, 2}

(* Layout::array::<T>(count), the Ok value: count elements of T, aligned as *)
(* T; the size is the product in the machine word.                         *)
ArrayLayout(T, count) == [size |-> (T.size * count) % USIZE, align |-> T.align]

(* Layout::array without its overflow check. *)
LayoutArrayUnchecked(T, count) == TRUE

(* Layout::array::<T>(count) is Ok: the total size neither overflows a     *)
(* usize nor exceeds isize::MAX rounded down to the alignment.  The facade *)
(* calls .expect() on it (lib.rs:40, lib.rs:55).                           *)
LayoutArrayOk(T, count) ==
    T.size = 0 \/ count <= (ISIZE_MAX + 1 - T.align) \div T.size

Layouts == Types \cup {ArrayLayout(T, n) : T \in Types, n \in 0..MaxCount}

----------------------------------------------------------------------------
(* Pointer arithmetic *)

MinOf(S) == CHOOSE x \in S : \A y \in S : x <= y

(* pointer::align_offset on a pointer to elements of `stride` bytes        *)
(* (unix.rs:67, windows.rs:63).  The pointer is a NonNull<MaybeUninit<T>>, *)
(* so the result counts elements of T, not bytes: it is the smallest o     *)
(* with (addr + o * stride) a multiple of a, and usize::MAX when no such o *)
(* exists.  For a zero-sized T it is 0 when addr is aligned and usize::MAX *)
(* otherwise.                                                              *)
AlignOffset(addr, stride, a) ==
    IF stride = 0
    THEN IF addr % a = 0 THEN 0 ELSE USIZE_MAX
    ELSE LET sols == {o \in 0..(a - 1) : (addr + o * stride) % a = 0}
         IN  IF sols = {} THEN USIZE_MAX ELSE MinOf(sols)

(* NonNull::byte_add: the address plus count bytes, in the machine word. *)
ByteAdd(p, count) == (p + count) % USIZE

(* `p.byte_offset_from(q) as usize`: the signed distance reinterpreted as  *)
(* an unsigned word.                                                       *)
OffsetFrom(p, q) == (p - q + USIZE) % USIZE

(* A capacity check that lets one byte too many through. *)
IsOOMOffByOne(used) == used > VIRT_ALLOC_SIZE + 1

(* The capacity check of the allocation routine: TRUE when it panics. *)
IsOOM(used) == used > VIRT_ALLOC_SIZE

(* The arithmetic of alloc_uninit for a value of layout L with the cursor  *)
(* at cur: the offset, the returned pointer, the new cursor and the bytes  *)
(* in use that the capacity check reads.                                   *)
Bump(cur, st, L) ==
    LET off   == AlignOffset(cur, L.size, L.align)
        value == ByteAdd(cur, off)
        new   == ByteAdd(value, L.size)
    IN  [off |-> off, ptr |-> value, cursor |-> new, used |-> OffsetFrom(new, st)]

(* byte_add(off) with off > isize::MAX breaks the precondition of          *)
(* ptr::add: undefined behaviour.  A build with the precondition checks    *)
(* aborts, a build without them computes the wrapped address.              *)
BreaksAddPrecondition(off) == off > ISIZE_MAX

(* A commit loop that also commits the block starting at the cursor. *)
RECURSIVE CommitLoopEager(_, _)
CommitLoopEager(cc, ac) ==
    IF cc <= ac THEN CommitLoopEager(ByteAdd(cc, COMMIT_BLOCK_SIZE), ac) ELSE cc

(* A commit step that commits at most one block per allocation. *)
CommitLoopOnce(cc, ac) == IF cc < ac THEN ByteAdd(cc, COMMIT_BLOCK_SIZE) ELSE cc

(* A commit loop that moves the commit cursor straight to the allocation  *)
(* cursor.                                                                 *)
CommitLoopToCursor(cc, ac) == IF cc < ac THEN ac ELSE cc

(* The commit loop of windows.rs:75-91 when no commit is refused: whole    *)
(* blocks from the commit cursor until it is no longer below the           *)
(* allocation cursor.                                                      *)
RECURSIVE CommitLoop(_, _)
CommitLoop(cc, ac) ==
    IF cc < ac THEN CommitLoop(ByteAdd(cc, COMMIT_BLOCK_SIZE), ac) ELSE cc

(* The number of VirtualAlloc(MEM_COMMIT) calls that loop makes. *)
CommitCalls(cc, ac) == (CommitLoop(cc, ac) - cc) \div COMMIT_BLOCK_SIZE

(* The blocks the system can commit before it refuses. *)
PhysBlocks == VIRT_ALLOC_SIZE \div COMMIT_BLOCK_SIZE

(* A system call: its name and the address passed to it. *)
Sys(name, addr) == [sys |-> name, addr |-> addr]

(* One commit call for the whole run of the loop. *)
CommitSeqSingle(cc, k) == IF k = 0 THEN << >> ELSE <<Sys("commit", cc)>>

(* The commit calls of one run of the loop: k calls from cc, one per block. *)
CommitSeq(cc, k) ==
    [i \in 1..k |-> Sys("commit", cc + (i - 1) * COMMIT_BLOCK_SIZE)]

(* bytes_used(): the cursor's distance from start. *)
bytes_used == OffsetFrom(cursor, start)

(* reset() that leaves the cursor one byte past start. *)
ResetCursorPastStart(st) == st + 1

(* reset(): the value the cursor is set to. *)
ResetCursor(st) == st

----------------------------------------------------------------------------
(* Memory *)

Offsets == 0..(VIRT_ALLOC_SIZE - 1)

ZeroMem == [o \in Offsets |-> 0]

(* The bytes [ptr, ptr + size) of the reservation set to v. *)
Fill(m, ptr, size, v) ==
    [o \in Offsets |-> IF ptr <= start + o /\ start + o < ptr + size THEN v ELSE m[o]]

(* A clearing that stops one byte short. *)
ZeroFillShort(m, ptr, size) == Fill(m, ptr, size - 1, 0)

(* write_bytes(0, layout.size()) of alloc_zeroed (lib.rs:100). *)
ZeroFill(m, ptr, size) == Fill(m, ptr, size, 0)

(* A store to [ptr, ptr + size) that reaches outside the reservation. *)
OutOfRange(ptr, size) ==
    size > 0 /\ (ptr < start \/ ptr + size > start + VIRT_ALLOC_SIZE)

----------------------------------------------------------------------------
(* Ghost records *)

(* The last facade call: its name, its outcome ("ok", "oom" for the OOM    *)
(* panic, "abort" for a failed precondition check, "fault" for a store     *)
(* outside the reservation, "layout_err" for the panic on an array layout  *)
(* that does not exist, "commit_fail" for the panic on a refused commit),  *)
(* the pointer returned, the layout asked for, the element size and count, *)
(* the cursor before the call, whether the returned bytes held a non-zero  *)
(* byte when the call was made, the value stored in the slot and the       *)
(* number of times the producer was invoked.                               *)
NoCall == [op |-> "none", res |-> "none", ptr |-> 0, size |-> 0, align |-> 1,
           elem |-> 0, count |-> 0, before |-> 0, stale |-> FALSE,
           value |-> 0, invoked |-> 0]

Call(op, res, ptr, L, T, n) ==
    [op |-> op, res |-> res, ptr |-> ptr, size |-> L.size, align |-> L.align,
     elem |-> T.size, count |-> n, before |-> cursor,
     stale |-> res = "ok" /\ \E o \in Offsets :
                   /\ ptr <= start + o
                   /\ start + o < ptr + L.size
                   /\ mem[o] # 0,
     value |-> 0, invoked |-> 0]

Rec(ptr, L) == [ptr |-> ptr, size |-> L.size, align |-> L.align, before |-> cursor]

(* The lifecycle record after the arena enters state s. *)
Enter(l, s) == [l EXCEPT !.trail = Append(@, s)]

(* No allocation is in flight on any thread. *)
Threads == {1, 2}
Idle == [run |-> [t \in Threads |-> [pc |-> "idle", ptr |-> 0, new |-> 0,
                                     size |-> 0, align |-> 1]],
         raced |-> FALSE]

----------------------------------------------------------------------------
(* The state before construction, but for the platform and the memory the  *)
(* system will agree to commit.                                            *)
InitArena ==
    /\ state = "Uninitialized"
    /\ ub_checks \in BOOLEAN
    /\ start = 0
    /\ cursor = 0
    /\ commit_cursor = 0
    /\ mem = ZeroMem
    /\ written = ZeroMem
    /\ hist = << >>
    /\ fresh = TRUE
    /\ dirty = FALSE
    /\ last = NoCall
    /\ calls = << >>
    /\ commit_log = << >>
    /\ life = [trail |-> <<"Uninitialized">>, reserved |-> 0, released |-> << >>]
    /\ frames = << >>
    /\ threads = Idle

(* Either platform; the system never refuses a commit. *)
Init ==
    /\ InitArena
    /\ platform \in {"unix", "windows"}
    /\ phys = PhysBlocks

(* VirtArena::new: reserve the range; a refused reservation panics. *)
New ==
    /\ state = "Uninitialized"
    /\ \/ \E b \in BaseAddrs :
            /\ state' = "Active"
            /\ start' = b
            /\ cursor' = b
            /\ commit_cursor' = IF platform = "windows" THEN b ELSE 0
            /\ calls' = <<Sys("reserve", b)>>
            /\ life' = [Enter(life, "Active") EXCEPT !.reserved = @ + 1]
       \/ /\ state' = "Failed"
          /\ calls' = <<Sys("reserve", 0)>>
          /\ life' = Enter(life, "Failed")
          /\ UNCHANGED <<start, cursor, commit_cursor>>
    /\ UNCHANGED <<platform, ub_checks, mem, written, hist, fresh, dirty, last,
                   phys, commit_log, frames, threads>>

(* A release at the cursor instead of the base. *)
ReleaseAtCursor(st, cur) == cur

(* The address Drop passes to munmap / VirtualFree. *)
ReleaseAddr(st, cur) == st

(* Drop: release the whole reservation. *)
Drop ==
    /\ state = "Active"
    /\ frames = << >>
    /\ state' = "Destroyed"
    /\ calls' = <<Sys("release", ReleaseAddr(start, cursor))>>
    /\ life' = [Enter(life, "Destroyed")
                  EXCEPT !.released = Append(@, ReleaseAddr(start, cursor))]
    /\ UNCHANGED <<platform, ub_checks, start, cursor, commit_cursor, mem,
                   written, hist, fresh, dirty, last, phys, commit_log,
                   frames, threads>>

NoFill == 0 - 1

(* The backend's allocation, as every facade call runs it: op names the    *)
(* facade call, L the layout it asks for (n elements of T), fill the byte  *)
(* the returned bytes are then set to (NoFill: they are left alone).  It   *)
(* leaves `frames` to the facade call.                                     *)
AllocCore(op, L, T, n, fill) ==
    /\ state = "Active"
    /\ Len(hist) < MaxAllocs
    /\ LET b    == Bump(cursor, start, L)
           need == IF platform = "windows"
                   THEN CommitCalls(commit_cursor, b.cursor) ELSE 0
           done == IF need <= phys THEN need ELSE phys
       IN
       IF BreaksAddPrecondition(b.off) /\ ub_checks
       THEN /\ state' = "Aborted"
            /\ life' = Enter(life, "Aborted")
            /\ last' = Call(op, "abort", 0, L, T, n)
            /\ calls' = << >>
            /\ UNCHANGED <<cursor, commit_cursor, mem, written, hist, phys,
                           commit_log>>
       ELSE IF IsOOM(b.used)
       THEN /\ last' = Call(op, "oom", 0, L, T, n)
            /\ calls' = << >>
            /\ UNCHANGED <<state, life, cursor, commit_cursor, mem, written,
                           hist, phys, commit_log>>
       ELSE /\ cursor' = b.cursor
            /\ phys' = phys - done
            /\ commit_log' = commit_log \o [i \in 1..done |->
                                 commit_cursor + (i - 1) * COMMIT_BLOCK_SIZE]
            /\ IF done < need
               THEN /\ commit_cursor' = commit_cursor + done * COMMIT_BLOCK_SIZE
                    /\ calls' = CommitSeq(commit_cursor, done + 1)
                    /\ last' = Call(op, "commit_fail", 0, L, T, n)
                    /\ UNCHANGED <<state, life, mem, written, hist>>
               ELSE
                    /\ commit_cursor' = IF platform = "windows"
                                        THEN CommitLoop(commit_cursor, b.cursor)
                                        ELSE commit_cursor
                    /\ calls' = CommitSeq(commit_cursor, need)
                    /\ hist' = Append(hist, Rec(b.ptr, L))
                    /\ IF fill # NoFill
                       THEN \/ /\ mem' = IF fill = 0 THEN ZeroFill(mem, b.ptr, L.size)
                                         ELSE Fill(mem, b.ptr, L.size, fill)
                               /\ written' = IF fill = 0
                                             THEN ZeroFill(written, b.ptr, L.size)
                                             ELSE Fill(written, b.ptr, L.size, fill)
                               /\ last' = [Call(op, "ok", b.ptr, L, T, n)
                                             EXCEPT !.value = fill]
                               /\ UNCHANGED <<state, life>>
                            \/ /\ OutOfRange(b.ptr, L.size)
                               /\ state' = "Aborted"
                               /\ life' = Enter(life, "Aborted")
                               /\ last' = Call(op, "fault", b.ptr, L, T, n)
                               /\ UNCHANGED <<mem, written>>
                       ELSE /\ last' = Call(op, "ok", b.ptr, L, T, n)
                            /\ UNCHANGED <<state, life, mem, written>>
    /\ UNCHANGED <<platform, ub_checks, start, fresh, dirty, threads>>

(* A facade call that is not alloc_with: zero tells whether the returned   *)
(* bytes are cleared (VirtArenaRaw::alloc_zeroed).                         *)
AllocCall(op, L, T, n, zero) ==
    /\ AllocCore(op, L, T, n, IF zero THEN 0 ELSE NoFill)
    /\ UNCHANGED frames

(* .expect("Failed to read the array layout") on an Err: the call panics   *)
(* before the backend is entered.                                          *)
LayoutPanic(op, T, n) ==
    /\ state = "Active"
    /\ Len(hist) < MaxAllocs
    /\ last' = Call(op, "layout_err", 0, ArrayLayout(T, n), T, n)
    /\ calls' = << >>
    /\ UNCHANGED <<state, platform, ub_checks, start, cursor, commit_cursor,
                   mem, written, hist, fresh, dirty, phys, commit_log, life,
                   frames, threads>>

(* VirtArena::alloc(layout) *)
Alloc(L) ==
    /\ L \in Layouts
    /\ AllocCall("alloc", L, L, 1, FALSE)

(* VirtArena::alloc_zeroed::<T>() *)
AllocZeroed(T) ==
    /\ T \in Types
    /\ AllocCall("alloc_zeroed", T, T, 1, TRUE)

(* VirtArena::alloc_slice_zeroed::<T>(count) *)
AllocSliceZeroed(T, count) ==
    /\ T \in Types
    /\ IF LayoutArrayOk(T, count)
       THEN AllocCall("alloc_slice_zeroed", ArrayLayout(T, count), T, count, TRUE)
       ELSE LayoutPanic("alloc_slice_zeroed", T, count)

(* VirtArena::alloc_uninit::<T>() *)
AllocUninit(T) ==
    /\ T \in Types
    /\ AllocCall("alloc_uninit", T, T, 1, FALSE)

(* VirtArena::alloc_slice_uninit::<T>(count) *)
AllocSliceUninit(T, count) ==
    /\ T \in Types
    /\ IF LayoutArrayOk(T, count)
       THEN AllocCall("alloc_slice_uninit", ArrayLayout(T, count), T, count, FALSE)
       ELSE LayoutPanic("alloc_slice_uninit", T, count)

(* reset() that also rewinds the commit cursor. *)
ResetRewindsCommit ==
    /\ state = "Active"
    /\ frames = << >>
    /\ cursor' = ResetCursor(start)
    /\ commit_cursor' = IF platform = "windows" THEN start ELSE commit_cursor
    /\ hist' = << >>
    /\ fresh' = FALSE
    /\ dirty' = FALSE
    /\ last' = [NoCall EXCEPT !.op = "reset", !.res = "ok", !.before = cursor]
    /\ calls' = << >>
    /\ UNCHANGED <<state, platform, ub_checks, start, mem, written, phys,
                   commit_log, life, frames, threads>>

(* reset() that clears the reservation. *)
ResetScrubs ==
    /\ state = "Active"
    /\ frames = << >>
    /\ cursor' = ResetCursor(start)
    /\ mem' = ZeroMem
    /\ hist' = << >>
    /\ fresh' = FALSE
    /\ dirty' = FALSE
    /\ last' = [NoCall EXCEPT !.op = "reset", !.res = "ok", !.before = cursor]
    /\ calls' = << >>
    /\ UNCHANGED <<state, platform, ub_checks, start, commit_cursor, written,
                   phys, commit_log, life, frames, threads>>

(* VirtArena::reset *)
Reset ==
    /\ state = "Active"
    /\ frames = << >>
    /\ cursor' = ResetCursor(start)
    /\ hist' = << >>
    /\ fresh' = FALSE
    /\ dirty' = FALSE
    /\ last' = [NoCall EXCEPT !.op = "reset", !.res = "ok", !.before = cursor]
    /\ calls' = << >>
    /\ UNCHANGED <<state, platform, ub_checks, start, commit_cursor, mem,
                   written, phys, commit_log, life, frames, threads>>

(* The caller stores a value through the handle of a live allocation: every *)
(* byte of it becomes v.                                                    *)
Write(i, v) ==
    /\ state = "Active"
    /\ i \in 1..Len(hist)
    /\ hist[i].size > 0
    /\ \/ /\ mem' = Fill(mem, hist[i].ptr, hist[i].size, v)
          /\ written' = Fill(written, hist[i].ptr, hist[i].size, v)
          /\ UNCHANGED <<state, life>>
       \/ /\ OutOfRange(hist[i].ptr, hist[i].size)
          /\ state' = "Aborted"
          /\ life' = Enter(life, "Aborted")
          /\ UNCHANGED <<mem, written>>
    /\ dirty' = TRUE
    /\ UNCHANGED <<platform, ub_checks, start, cursor, commit_cursor, hist,
                   fresh, last, phys, calls, commit_log, frames, threads>>

(* A store of the producer's result at the slot below the cursor. *)
WithTargetBelowCursor(f) == cursor - f.size

(* uninit.write(..): the slot the producer's result is stored in. *)
WithTarget(f) == f.ptr

(* The types alloc_with and alloc_value are called with. *)
WithTypes == {U8, U32}

(* VirtArena::alloc_with up to the call of the producer: the slot is       *)
(* reserved by alloc_uninit, then fun() is entered.  Until fun() returns,  *)
(* the calls made of the arena are the producer's.                         *)
AllocWithBegin(T) ==
    /\ T \in WithTypes
    /\ AllocCore("alloc_uninit", T, T, 1, NoFill)
    /\ frames' = IF last'.res = "ok"
                 THEN Append(frames, [ptr |-> last'.ptr, size |-> T.size,
                                      align |-> T.align, before |-> cursor,
                                      idx |-> Len(hist'), invoked |-> 1])
                 ELSE frames

(* VirtArena::alloc_with from the return of the innermost running producer *)
(* with value v: the value is stored in the slot and the slot returned.    *)
AllocWithEnd(v) ==
    /\ state = "Active"
    /\ frames # << >>
    /\ LET f == frames[Len(frames)] IN
       /\ frames' = SubSeq(frames, 1, Len(frames) - 1)
       /\ \/ /\ mem' = Fill(mem, WithTarget(f), f.size, v)
             /\ written' = Fill(written, WithTarget(f), f.size, v)
             /\ last' = [NoCall EXCEPT !.op = "alloc_with", !.res = "ok",
                                       !.ptr = f.ptr, !.size = f.size,
                                       !.align = f.align, !.elem = f.size,
                                       !.count = 1, !.before = f.before,
                                       !.value = v, !.invoked = f.invoked]
             /\ UNCHANGED <<state, life>>
          \/ /\ OutOfRange(WithTarget(f), f.size)
             /\ state' = "Aborted"
             /\ life' = Enter(life, "Aborted")
             /\ last' = [NoCall EXCEPT !.op = "alloc_with", !.res = "fault"]
             /\ UNCHANGED <<mem, written>>
    /\ dirty' = TRUE
    /\ calls' = << >>
    /\ UNCHANGED <<platform, ub_checks, start, cursor, commit_cursor, hist,
                   fresh, phys, commit_log, threads>>

(* VirtArena::alloc_value(val): alloc_with(move || val), whose producer    *)
(* makes no call of the arena.                                             *)
AllocValue(T, v) ==
    /\ T \in WithTypes
    /\ AllocCore("alloc_value", T, T, 1, v)
    /\ UNCHANGED frames

(* alloc_uninit on thread t up to the capacity check: the cursor is read   *)
(* and the new cursor computed from it.                                    *)
RaceGet(t, T) ==
    /\ state = "Active"
    /\ threads.run[t].pc = "idle"
    /\ Len(hist) + Cardinality({u \in Threads : threads.run[u].pc = "set"})
           < MaxAllocs
    /\ LET b == Bump(cursor, start, T) IN
       IF BreaksAddPrecondition(b.off) /\ ub_checks
       THEN /\ state' = "Aborted"
            /\ life' = Enter(life, "Aborted")
            /\ last' = Call("alloc_uninit", "abort", 0, T, T, 1)
            /\ UNCHANGED threads
       ELSE IF IsOOM(b.used)
       THEN /\ last' = Call("alloc_uninit", "oom", 0, T, T, 1)
            /\ UNCHANGED <<state, life, threads>>
       ELSE /\ threads' =
                [run |-> [threads.run EXCEPT ![t] =
                             [pc |-> "set", ptr |-> b.ptr, new |-> b.cursor,
                              size |-> T.size, align |-> T.align]],
                 raced |-> threads.raced
                             \/ \E u \in Threads \ {t} : threads.run[u].pc = "set"]
            /\ UNCHANGED <<state, life, last>>
    /\ UNCHANGED <<platform, ub_checks, start, cursor, commit_cursor, mem,
                   written, hist, fresh, dirty, phys, calls, commit_log,
                   frames>>

(* alloc_uninit on thread t from the store of the cursor to the return. *)
RaceSet(t) ==
    /\ state = "Active"
    /\ threads.run[t].pc = "set"
    /\ LET r    == threads.run[t]
           need == IF platform = "windows"
                   THEN CommitCalls(commit_cursor, r.new) ELSE 0
       IN
       /\ cursor' = r.new
       /\ commit_cursor' = IF platform = "windows"
                           THEN CommitLoop(commit_cursor, r.new)
                           ELSE commit_cursor
       /\ phys' = phys - need
       /\ calls' = CommitSeq(commit_cursor, need)
       /\ commit_log' = commit_log \o [i \in 1..need |->
                            commit_cursor + (i - 1) * COMMIT_BLOCK_SIZE]
       /\ hist' = Append(hist, Rec(r.ptr, r))
       /\ last' = Call("alloc_uninit", "ok", r.ptr, r, r, 1)
       /\ threads' = [threads EXCEPT !.run[t] = Idle.run[t]]
    /\ UNCHANGED <<state, platform, ub_checks, start, mem, written, fresh,
                   dirty, life, frames>>

Next ==
    \/ New
    \/ Drop
    \/ Reset
    \/ \E L \in Layouts : Alloc(L)
    \/ \E T \in Types : AllocZeroed(T)
    \/ \E T \in Types : AllocUninit(T)
    \/ \E T \in Types, n \in 0..MaxCount : AllocSliceZeroed(T, n)
    \/ \E T \in Types, n \in 0..MaxCount : AllocSliceUninit(T, n)

Spec == Init /\ [][Next]_vars

(* The calls that read and write the arena's memory, with the caller's     *)
(* stores through the handles it holds.                                    *)
NextMem ==
    \/ New
    \/ Reset
    \/ \E T \in MemTypes : AllocZeroed(T)
    \/ \E T \in MemTypes : AllocUninit(T)
    \/ \E T \in MemTypes, n \in 0..MaxCount : AllocSliceZeroed(T, n)
    \/ \E i \in 1..MaxAllocs, v \in Values : Write(i, v)

SpecMem == Init /\ [][NextMem]_vars

(* Array requests whose count reaches the limits of Layout::array: the     *)
(* largest count of u32 that has a layout, the first that has none, the    *)
(* first whose byte size wraps the word, and the largest word.             *)
ArrCounts == {0, 1, ISIZE_MAX \div U32.size, (ISIZE_MAX \div U32.size) + 1,
              USIZE \div U32.size, USIZE_MAX}

NextArr ==
    \/ New
    \/ Reset
    \/ \E T \in Types, n \in ArrCounts : AllocSliceZeroed(T, n)
    \/ \E T \in Types, n \in ArrCounts : AllocSliceUninit(T, n)

SpecArr == Init /\ [][NextArr]_vars

(* alloc_with and alloc_value, with the calls a producer makes of the      *)
(* arena while it runs.                                                    *)
NextWith ==
    \/ New
    \/ \E T \in WithTypes : AllocUninit(T)
    \/ \E T \in WithTypes : AllocWithBegin(T)
    \/ \E v \in Values : AllocWithEnd(v)
    \/ \E T \in WithTypes, v \in Values : AllocValue(T, v)

SpecWith == Init /\ [][NextWith]_vars

(* The explicit-commit platform, with a system that refuses to commit      *)
(* after any number of blocks.                                             *)
InitCommit ==
    /\ InitArena
    /\ platform = "windows"
    /\ phys \in 0..PhysBlocks

NextCommit ==
    \/ New
    \/ Drop
    \/ Reset
    \/ \E L \in Layouts : Alloc(L)

SpecCommit == InitCommit /\ [][NextCommit]_vars

(* One arena called from two threads with no synchronization. *)
NextRace ==
    \/ New
    \/ \E t \in Threads, T \in Types : RaceGet(t, T)
    \/ \E t \in Threads : RaceSet(t)

SpecRace == Init /\ [][NextRace]_vars

----------------------------------------------------------------------------
(* Notions the claims are stated in *)

AllocOps == {"alloc", "alloc_zeroed", "alloc_slice_zeroed", "alloc_uninit",
             "alloc_slice_uninit"}
SliceOps == {"alloc_slice_zeroed", "alloc_slice_uninit"}

(* The last call was an allocation that returned a pointer. *)
Returned == last.op \in AllocOps /\ last.res = "ok"

(* The least number of bytes that brings address at to a multiple of a. *)
Padding(at, a) == (a - (at % a)) % a

(* The byte ranges of two allocations share no byte. *)
Disjoint(x, y) ==
    \/ x.size = 0
    \/ y.size = 0
    \/ x.ptr + x.size <= y.ptr
    \/ y.ptr + y.size <= x.ptr

(* Padding plus size, summed over the allocations h[1..n]. *)
RECURSIVE PaddedSum(_, _)
PaddedSum(h, n) ==
    IF n = 0 THEN 0
    ELSE PaddedSum(h, n - 1) + Padding(h[n].before, h[n].align) + h[n].size

----------------------------------------------------------------------------
(* C1: the byte ranges [ptr, ptr + size) of any two allocations issued     *)
(* since the last reset (or since construction) are disjoint.              *)
C1_NoOverlap ==
    \A i, j \in 1..Len(hist) : i < j => Disjoint(hist[i], hist[j])

(* C2: every allocation with alignment A returns an address that is a      *)
(* multiple of A, whatever the cursor position before it.                  *)
C2_Aligned == Returned => last.ptr % last.align = 0

(* C3: in every state of an active arena, after any allocations and        *)
(* resets, start <= cursor <= start + VIRT_ALLOC_SIZE.                     *)
C3_CursorInRange ==
    state = "Active" => (start <= cursor /\ cursor <= start + VIRT_ALLOC_SIZE)

(* C3's case: an arena filled to its last byte, after a reset, with a      *)
(* further request refused.                                                *)
C3_Witness ==
    /\ state = "Active"
    /\ ~fresh
    /\ cursor = start + VIRT_ALLOC_SIZE
    /\ last.res = "oom"

(* C4: bytes_used() never decreases between two resets and equals the sum, *)
(* over the allocations since the last reset, of the least alignment       *)
(* padding before the allocation plus its size.                            *)
C4_BytesUsedIsSum ==
    state = "Active" =>
        /\ bytes_used = PaddedSum(hist, Len(hist))
        /\ Returned => bytes_used >= OffsetFrom(last.before, start)

(* C5: reset() sets the cursor to start, so bytes_used() is 0 right after  *)
(* it whatever preceded it, and it changes nothing else of the arena: not  *)
(* start, not the memory contents, not the commit cursor.                  *)
C5_ResetFrame ==
    [][Reset => /\ cursor' = start
                /\ bytes_used' = 0
                /\ start' = start
                /\ state' = state
                /\ mem' = mem
                /\ commit_cursor' = commit_cursor]_vars

(* C5's case: a reset of an arena in use on the explicit-commit platform,  *)
(* with blocks committed and non-zero bytes in memory.                     *)
C5_Witness ==
    /\ last.op = "reset"
    /\ last.before > start
    /\ cursor = start
    /\ platform = "windows"
    /\ commit_cursor > start
    /\ mem # ZeroMem

(* The cursor after the requests h[1..n] are issued to an arena whose      *)
(* cursor is at st, as it is right after construction.                     *)
RECURSIVE FreshCursor(_, _, _)
FreshCursor(st, h, n) ==
    IF n = 0 THEN st
    ELSE Bump(FreshCursor(st, h, n - 1), st,
              [size |-> h[n].size, align |-> h[n].align]).cursor

(* The address the n-th of the requests h returns in that run. *)
FreshPtr(st, h, n) ==
    Bump(FreshCursor(st, h, n - 1), st,
         [size |-> h[n].size, align |-> h[n].align]).ptr

(* C6: the requests issued since the last reset returned the addresses     *)
(* that the same requests return when issued right after construction, in  *)
(* the same order.                                                         *)
C6_ReplaySame ==
    \A i \in 1..Len(hist) : hist[i].ptr = FreshPtr(start, hist, i)

(* C6's case: after a reset that followed other allocations, a sequence    *)
(* with padding-sensitive requests has been issued again.                  *)
C6_Witness ==
    /\ ~fresh
    /\ Len(hist) = 3
    /\ hist[1].size = 1
    /\ hist[2].align = 4
    /\ hist[3].ptr > hist[2].ptr
    /\ Returned

(* C7: reset() does not clear memory: every byte of the reservation reads  *)
(* as the value last stored to it, so an uninitialized allocation made     *)
(* after a reset reads the bytes stored before it, and bytes not stored to *)
(* since they were zeroed read as zero.                                    *)
C7_ResetKeepsContents ==
    \A o \in Offsets : mem[o] = written[o]

(* C7's case, the sequence of the crate's test: after a reset and with no  *)
(* store since, two uninitialized records; the first reads the non-zero    *)
(* bytes stored before the reset, the second reads zero.                   *)
C7_Witness ==
    /\ ~fresh
    /\ ~dirty
    /\ Len(hist) = 2
    /\ last.op = "alloc_uninit"
    /\ last.res = "ok"
    /\ hist[1].ptr = start
    /\ \A k \in 1..2 : hist[k].size = U32.size /\ hist[k].align = U32.align
    /\ \A o \in 0..3 : mem[o] = 2
    /\ \A o \in 4..7 : mem[o] = 0

(* A step that is a zero-initializing allocation. *)
ZeroedCall ==
    \/ \E T \in Types : AllocZeroed(T)
    \/ \E T \in Types, n \in 0..MaxCount : AllocSliceZeroed(T, n)

(* C8: a zero-initializing allocation that returns leaves every byte of    *)
(* [ptr, ptr + size) zero, whatever the bytes held before, and changes no  *)
(* byte outside that range.                                                *)
C8_ZeroedExactly ==
    [][(ZeroedCall /\ last'.res = "ok") =>
        \A o \in Offsets :
            mem'[o] = IF /\ last'.ptr <= start + o
                         /\ start + o < last'.ptr + last'.size
                      THEN 0
                      ELSE mem[o]]_vars

(* C8's case: a zeroed allocation, after a reset, of bytes that held       *)
(* non-zero values, next to bytes that still hold them.                    *)
C8_Witness ==
    /\ last.op \in {"alloc_zeroed", "alloc_slice_zeroed"}
    /\ last.res = "ok"
    /\ last.stale
    /\ ~fresh
    /\ ~dirty
    /\ \A o \in Offsets :
           (last.ptr <= start + o /\ start + o < last.ptr + last.size) => mem[o] = 0
    /\ \E o \in Offsets : start + o = last.ptr + last.size /\ mem[o] # 0

(* C9: an allocation succeeds if and only if aligned pointer + size - base *)
(* <= capacity, the aligned pointer being the smallest aligned address at  *)
(* or after the cursor; a refused request leaves the cursor where it was.  *)
C9_FitsIffSucceeds ==
    (last.op \in AllocOps /\ last.res \in {"ok", "oom"}) =>
        LET aligned == last.before + Padding(last.before, last.align)
        IN  /\ (last.res = "ok") <=> (aligned + last.size - start <= VIRT_ALLOC_SIZE)
            /\ last.res = "oom" => cursor = last.before

(* C10: an array allocation of count N elements advances the cursor by the *)
(* alignment padding plus exactly N * size_of(T) and returns N contiguous  *)
(* elements; for N = 0 the cursor moves by the padding only.               *)
C10_ArrayAdvance ==
    (last.op \in SliceOps /\ last.res = "ok") =>
        LET pad == Padding(last.before, last.align)
        IN  /\ cursor = last.before + pad + last.count * last.elem
            /\ last.ptr = last.before + pad
            /\ last.size = last.count * last.elem

(* C11: an array allocation whose count times element size exceeds what a  *)
(* layout can hold (it overflows the word or isize::MAX) panics before the *)
(* cursor moves; an array allocation that returns hands out exactly        *)
(* count * size_of(T) bytes, never a wrapped, shorter region.              *)
C11_ArrayOverflowFailsFast ==
    (state = "Active" /\ last.op \in SliceOps) =>
        /\ (last.elem * last.count > ISIZE_MAX) =>
               /\ last.res = "layout_err"
               /\ cursor = last.before
               /\ calls = << >>
        /\ (last.res = "ok") => last.size = last.elem * last.count

(* An overflowing array request was made of an arena that already holds an *)
(* allocation, and it panicked.                                            *)
C11_Witness ==
    /\ last.op \in SliceOps
    /\ last.res = "layout_err"
    /\ last.elem * last.count >= USIZE
    /\ cursor # start

(* C12: alloc_with reserves the slot before it invokes the producer,       *)
(* invokes the producer exactly once and stores its result in the slot:    *)
(* the reference it returns points at the slot, which lies where the       *)
(* cursor stood when alloc_with was called, and holds the value.           *)
(* alloc_value does the same with a producer that returns the value.       *)
C12_WithFillsSlot ==
    (state = "Active" /\ last.op \in {"alloc_with", "alloc_value"}
                      /\ last.res = "ok") =>
        /\ \E i \in 1..Len(hist) :
              /\ hist[i].ptr = last.ptr
              /\ hist[i].size = last.size
              /\ hist[i].before = last.before
        /\ \A o \in Offsets :
              (last.ptr <= start + o /\ start + o < last.ptr + last.size)
                  => mem[o] = last.value
        /\ last.op = "alloc_with" => last.invoked = 1

(* alloc_with returned after its producer allocated from the same arena. *)
C12_Witness ==
    /\ state = "Active"
    /\ last.op = "alloc_with"
    /\ last.res = "ok"
    /\ last.value = 2
    /\ \E i, j \in 1..Len(hist) :
          /\ i < j
          /\ hist[i].ptr = last.ptr
          /\ hist[i].before = last.before
          /\ hist[j].ptr # last.ptr

(* C13: the lifecycle is linear, Uninitialized -> Active -> Destroyed.     *)
(* Construction issues one reservation call; a refused reservation never   *)
(* yields an Active arena.  Allocation and reset happen only in Active.    *)
(* Teardown issues one release call, at the base the reservation returned, *)
(* and nothing happens to a Destroyed arena.                               *)
LifeStep ==
    /\ state \in {"Uninitialized", "Active"}
    /\ state = "Uninitialized" =>
          /\ state' \in {"Active", "Failed"}
          /\ Len(calls') = 1 /\ calls'[1].sys = "reserve"
          /\ state' = "Active" <=> life'.reserved = life.reserved + 1
          /\ state' = "Active" => start' = calls'[1].addr
          /\ UNCHANGED <<hist, last, mem>>
    /\ state = "Active" =>
          /\ state' \in {"Active", "Destroyed", "Aborted"}
          /\ UNCHANGED start
          /\ life'.reserved = life.reserved
    /\ state' = "Destroyed" <=> life'.released # life.released
    /\ state' = "Destroyed" =>
          /\ calls' = <<Sys("release", start)>>
          /\ life'.released = <<start>>
          /\ UNCHANGED <<cursor, hist, last, mem>>
    /\ life'.reserved \in {0, 1}
    /\ life'.trail \in {<<"Uninitialized", "Active">>,
                        <<"Uninitialized", "Failed">>,
                        <<"Uninitialized", "Active", "Destroyed">>,
                        <<"Uninitialized", "Active", "Aborted">>}
    /\ state' = life'.trail[Len(life'.trail)]

C13_LinearLifecycle == [][LifeStep]_vars

(* An arena that served allocations was torn down. *)
C13_Witness ==
    /\ state = "Destroyed"
    /\ life.released = <<start>>
    /\ life.reserved = 1
    /\ cursor # start
    /\ Len(hist) > 1

(* The arena is live on the explicit-commit platform. *)
OnWindows == platform = "windows" /\ state = "Active"

(* C14: on the explicit-commit platform, after every allocation that       *)
(* returned and after every reset, the commit cursor is at or past the     *)
(* allocation cursor: every byte of [base, cursor) is committed.           *)
C14_CommitCovers ==
    (OnWindows /\ (Returned \/ last.op = "reset")) => commit_cursor >= cursor

(* An allocation spanning more than one block returned after the system    *)
(* had refused a commit earlier.                                           *)
C14_Witness ==
    /\ OnWindows
    /\ Returned
    /\ Len(calls) > 1
    /\ commit_cursor >= cursor
    /\ phys = 0

(* C15 as the specification states it: on the explicit-commit platform the *)
(* allocation cursor is at or past the commit cursor in every state.       *)
C15_AllocAtLeastCommit == OnWindows => cursor >= commit_cursor

(* C15, amended: the order is the reverse.  Right after an allocation that *)
(* issued a commit call and returned, the commit cursor is at or past the  *)
(* allocation cursor and leads it by less than one commit block.           *)
C15_CommitLeadsByLessThanBlock ==
    (OnWindows /\ Returned /\ calls # << >>) =>
        /\ cursor <= commit_cursor
        /\ commit_cursor - cursor < COMMIT_BLOCK_SIZE

(* An allocation committed a block and left the commit cursor strictly     *)
(* ahead of the allocation cursor.                                         *)
C15_Witness ==
    /\ OnWindows
    /\ Returned
    /\ calls # << >>
    /\ cursor < commit_cursor

(* C16: on the explicit-commit platform no block is committed twice: the   *)
(* committed blocks are the consecutive blocks from the base up to the     *)
(* commit cursor, each committed by one call that started at the boundary  *)
(* of the call before it; a reset does not move the boundary back, and an  *)
(* allocation issues commit calls only when it ends past the boundary.     *)
C16_NoBlockCommittedTwice ==
    OnWindows =>
        /\ \A i \in 1..Len(commit_log) :
              commit_log[i] = start + (i - 1) * COMMIT_BLOCK_SIZE
        /\ commit_cursor = start + Len(commit_log) * COMMIT_BLOCK_SIZE
        /\ \A i \in 1..Len(calls) :
              /\ calls[i].sys \in {"commit", "reserve"}
              /\ calls[i].sys = "commit" =>
                    /\ calls[i].addr = calls[1].addr + (i - 1) * COMMIT_BLOCK_SIZE
                    /\ calls[i].addr < cursor
                    /\ calls[i].addr <= commit_cursor
        /\ (last.op = "reset") => calls = << >>

(* After a reset an allocation was served from blocks committed before the *)
(* reset, with no commit call.                                             *)
C16_Witness ==
    /\ OnWindows
    /\ ~fresh
    /\ Returned
    /\ last.size > 0
    /\ calls = << >>
    /\ Len(commit_log) > 1

(* C17 as the specification states it: every operation performs at most    *)
(* one system call.                                                        *)
C17_AtMostOneSyscall == Len(calls) <= 1

(* C17, amended: every operation performs at most one system call, except  *)
(* an allocation on the explicit-commit platform, which issues one commit  *)
(* call per block between the commit cursor and the new allocation cursor  *)
(* (none when the cursor stays within committed memory); construction and  *)
(* teardown perform one call, reset and allocation elsewhere none.         *)
C17_OneCallPerBlock ==
    /\ (platform = "unix" \/ last.op \notin AllocOps) => Len(calls) <= 1
    /\ (platform = "unix" /\ state = "Active") =>
           Len(calls) = IF last.op = "none" THEN 1 ELSE 0
    /\ (last.op = "reset" /\ state = "Active") => calls = << >>
    /\ (OnWindows /\ Returned) =>
           /\ \A i \in 1..Len(calls) :
                 calls[i] = Sys("commit", commit_cursor
                                   - (Len(calls) - i + 1) * COMMIT_BLOCK_SIZE)
           /\ calls # << >> => commit_cursor - COMMIT_BLOCK_SIZE < cursor
           /\ commit_cursor >= cursor

(* One allocation issued more than one commit call. *)
C17_Witness ==
    /\ OnWindows
    /\ Returned
    /\ Len(calls) > 1

(* C19: on the explicit-commit platform the commit cursor's offset from    *)
(* the base is a multiple of COMMIT_BLOCK_SIZE and never exceeds           *)
(* VIRT_ALLOC_SIZE, also after an allocation that ends exactly at capacity. *)
C19_CommitBlockAligned ==
    OnWindows =>
        /\ (commit_cursor - start) % COMMIT_BLOCK_SIZE = 0
        /\ commit_cursor >= start
        /\ commit_cursor - start <= VIRT_ALLOC_SIZE

(* An allocation ended exactly at capacity and its last block was          *)
(* committed.                                                              *)
C19_Witness ==
    /\ OnWindows
    /\ Returned
    /\ cursor = start + VIRT_ALLOC_SIZE
    /\ commit_cursor = start + VIRT_ALLOC_SIZE
    /\ calls # << >>

(* C18 as the specification states it, the half about callers that         *)
(* serialize: as long as no allocation began while another was in flight,  *)
(* no two returned ranges share a byte.                                    *)
C18_SerializedDisjoint ==
    (state = "Active" /\ ~threads.raced) =>
        \A i, j \in 1..Len(hist) : i # j => Disjoint(hist[i], hist[j])

(* The other half of C18: two allocations of one byte each, interleaved on *)
(* two threads, returned the same address.                                 *)
C18_RaceOverlap ==
    /\ state = "Active"
    /\ threads.raced
    /\ \A i \in 1..Len(hist) : hist[i].size = 1 /\ hist[i].align = 1
    /\ \E i, j \in 1..Len(hist) : i # j /\ hist[i].ptr = hist[j].ptr

(* C20: while the producer of alloc_with runs, every allocation it makes   *)
(* from the same arena lies after the outer slot and shares no byte with   *)
(* it.                                                                     *)
C20_NestedAfterSlot ==
    state = "Active" =>
        \A k \in 1..Len(frames) : \A j \in 1..Len(hist) :
            j > frames[k].idx =>
                /\ hist[j].ptr >= frames[k].ptr + frames[k].size
                /\ Disjoint(hist[j], frames[k])

====
